---------------------------- MODULE Spec2Model ----------------------------
(***************************************************************************)
(* A model of the tutorial notebooks of ML-CSC-tutorial.                   *)
(*                                                                         *)
(* A Jupyter kernel is a state machine: its state is the namespace of the  *)
(* session (the global names and the arrays they are bound to) and its     *)
(* operations are the code cells, which the reader may execute in any      *)
(* order and any number of times.  A cell that raises (a NameError, a      *)
(* TypeError) keeps the effect of the statements it executed before.       *)
(*                                                                         *)
(* Numbers.  Python floats are modelled as decimal floating point numbers  *)
(* with a four digit mantissa, m * 10^e with 1000 <= |m| <= 9999, and the  *)
(* values nan, +inf and -inf.  Results are rounded towards zero.  The      *)
(* library functions math.cos and math.exp are evaluated by rational       *)
(* approximations that are exact where the notebooks rely on exactness     *)
(* (cos(pi) = -1, exp(0) = 1) and accurate to about three digits           *)
(* elsewhere.  Atomic coordinates are small integers, which floats hold    *)
(* exactly, as are their differences and dot products.                     *)
(***************************************************************************)
EXTENDS Integers, Sequences, FiniteSets, TLC

-----------------------------------------------------------------------------
(* Floating point values *)

NaN == [k |-> "nan", m |-> 0, e |-> 0]
PInf == [k |-> "pinf", m |-> 0, e |-> 0]
NInf == [k |-> "ninf", m |-> 0, e |-> 0]
Num(m, e) == [k |-> "num", m |-> m, e |-> e]
Zero == Num(0, 0)

IsNum(a) == a.k = "num"
IsFinite(a) == a.k = "num"
IsZero(a) == a.k = "num" /\ a.m = 0

RECURSIVE Pow10(_)
Pow10(n) == IF n = 0 THEN 1 ELSE 10 * Pow10(n - 1)

RECURSIVE NormPos(_, _)
NormPos(m, e) ==
    IF m >= 10000 THEN NormPos(m \div 10, e + 1)
    ELSE IF m < 1000 THEN NormPos(m * 10, e - 1)
    ELSE Num(m, e)

\* the float nearest to m * 10^e in the direction of zero
Norm(m, e) ==
    IF m = 0 THEN Zero
    ELSE IF m > 0 THEN NormPos(m, e)
    ELSE LET q == NormPos(-m, e) IN Num(-q.m, q.e)

One == Norm(1, 0)
FromInt(n) == Norm(n, 0)

\* sign of a value that is not nan: -1, 0 or 1
Sign(a) ==
    IF a.k = "pinf" THEN 1
    ELSE IF a.k = "ninf" THEN -1
    ELSE IF a.m > 0 THEN 1 ELSE IF a.m < 0 THEN -1 ELSE 0

Neg(a) ==
    IF a.k = "nan" THEN NaN
    ELSE IF a.k = "pinf" THEN NInf
    ELSE IF a.k = "ninf" THEN PInf
    ELSE Num(-a.m, a.e)

\* a + b
Add(a, b) ==
    IF a.k = "nan" \/ b.k = "nan" THEN NaN
    ELSE IF a.k # "num" /\ b.k # "num" THEN (IF a.k = b.k THEN a ELSE NaN)
    ELSE IF a.k # "num" THEN a
    ELSE IF b.k # "num" THEN b
    ELSE IF a.m = 0 THEN b
    ELSE IF b.m = 0 THEN a
    ELSE LET hi == IF a.e >= b.e THEN a ELSE b
             lo == IF a.e >= b.e THEN b ELSE a
             d == hi.e - lo.e
         IN  IF d > 4 THEN hi ELSE Norm(hi.m * Pow10(d) + lo.m, lo.e)

Sub(a, b) == Add(a, Neg(b))

\* a * b
Mul(a, b) ==
    IF a.k = "nan" \/ b.k = "nan" THEN NaN
    ELSE IF a.k # "num" \/ b.k # "num" THEN
        (IF Sign(a) * Sign(b) = 0 THEN NaN
         ELSE IF Sign(a) * Sign(b) > 0 THEN PInf ELSE NInf)
    ELSE Norm(a.m * b.m, a.e + b.e)

\* a / b with numpy's float64 semantics: x/0 is inf or nan, never an exception
Div(a, b) ==
    IF a.k = "nan" \/ b.k = "nan" THEN NaN
    ELSE IF a.k # "num" THEN
        (IF b.k # "num" THEN NaN
         ELSE IF Sign(a) * (IF Sign(b) < 0 THEN -1 ELSE 1) > 0 THEN PInf ELSE NInf)
    ELSE IF b.k # "num" THEN Zero
    ELSE IF b.m = 0 THEN
        (IF a.m = 0 THEN NaN ELSE IF a.m > 0 THEN PInf ELSE NInf)
    ELSE LET s == Sign(a) * Sign(b)
             am == IF a.m < 0 THEN -a.m ELSE a.m
             bm == IF b.m < 0 THEN -b.m ELSE b.m
         IN  Norm(s * ((am * 10000) \div bm), a.e - b.e - 4)

\* a < b, a <= b, a > b (false when either is nan)
Lt(a, b) == a.k # "nan" /\ b.k # "nan" /\ Sign(Sub(a, b)) < 0 /\ Sub(a, b).k # "nan"
Gt(a, b) == Lt(b, a)
Ge(a, b) == a.k # "nan" /\ b.k # "nan" /\ (Gt(a, b) \/ a = b)
Le(a, b) == Ge(b, a)

\* b^n for an integer n, as math.pow and numpy.power compute it
RECURSIVE PowNat(_, _)
PowNat(b, n) ==
    IF n = 0 THEN One
    ELSE IF n % 2 = 0 THEN LET h == PowNat(b, n \div 2) IN Mul(h, h)
    ELSE Mul(b, PowNat(b, n - 1))
Pow(b, n) == IF n >= 0 THEN PowNat(b, n) ELSE Div(One, PowNat(b, -n))

\* the integer square root of n >= 0
RECURSIVE ISqrtIn(_, _, _)
ISqrtIn(n, lo, hi) ==
    IF lo >= hi THEN lo
    ELSE LET mid == (lo + hi + 1) \div 2
         IN  IF mid * mid <= n THEN ISqrtIn(n, mid, hi) ELSE ISqrtIn(n, lo, mid - 1)
ISqrt(n) == ISqrtIn(n, 0, 40000)

\* math.sqrt / numpy.sqrt of a >= 0
Sqrt(a) ==
    IF a.k = "nan" \/ a.k = "ninf" THEN NaN
    ELSE IF a.k = "pinf" THEN PInf
    ELSE IF a.m < 0 THEN NaN
    ELSE IF a.m = 0 THEN Zero
    ELSE LET odd == (a.e % 2) # 0
             m2 == IF odd THEN a.m * 10 ELSE a.m
             e2 == IF odd THEN a.e - 1 ELSE a.e
         IN  Norm(ISqrt(m2 * 10000), (e2 - 4) \div 2)

\* the integer nearest to a * 10^4 in the direction of zero, for |a| < 10^5
Fix4(a) ==
    LET s == a.e + 4
    IN  IF a.m = 0 THEN 0
        ELSE IF s >= 0 THEN a.m * Pow10(s)
        ELSE IF s < -4 THEN 0
        ELSE (IF a.m > 0 THEN a.m \div Pow10(-s) ELSE -((-a.m) \div Pow10(-s)))

Pi == Norm(3142, -3)

\* cos of a quarter turn or less, v in 1/10000 of a half turn, 0 <= v <= 5000:
\* Bhaskara's formula, exact at 0, 1/3 and 1/2 of a half turn
CosQ(v) == Div(FromInt(100000000 - 4 * v * v), FromInt(100000000 + v * v))

\* math.cos(x)
Cos(x) ==
    IF x.k # "num" THEN NaN
    ELSE LET u == Fix4(Div(x, Pi))
             ua == IF u < 0 THEN -u ELSE u
             w == ua % 20000
             v == IF w > 10000 THEN 20000 - w ELSE w
         IN  IF v <= 5000 THEN CosQ(v) ELSE Neg(CosQ(10000 - v))

EInv == Norm(3679, -4)

\* exp(-f / 10000) for 0 <= f < 10000: the reciprocal of the Taylor sum of exp
ExpFrac(f) ==
    LET t1 == f
        t2 == (t1 * f) \div 20000
        t3 == (t2 * f) \div 30000
        t4 == (t3 * f) \div 40000
        t5 == (t4 * f) \div 50000
        t6 == (t5 * f) \div 60000
    IN  Div(FromInt(10000), FromInt(10000 + t1 + t2 + t3 + t4 + t5 + t6))

\* math.exp(x)
Exp(x) ==
    IF x.k = "nan" THEN NaN
    ELSE IF x.k = "pinf" THEN PInf
    ELSE IF x.k = "ninf" THEN Zero
    ELSE LET y == Fix4(x)
             ya == IF y < 0 THEN -y ELSE y
             r == Mul(PowNat(EInv, ya \div 10000), ExpFrac(ya % 10000))
         IN  IF y <= 0 THEN r ELSE Div(One, r)

Half == Norm(5, -1)

-----------------------------------------------------------------------------
(* Vectors of integer coordinates *)

VSub(u, v) == <<u[1] - v[1], u[2] - v[2], u[3] - v[3]>>
\* numpy.dot
Dot(u, v) == u[1] * v[1] + u[2] * v[2] + u[3] * v[3]
\* numpy.linalg.norm
norm(u) == Sqrt(FromInt(Dot(u, u)))

\* the sum a loop accumulates with +=, from acc, over the terms of s in order
RECURSIVE SumFrom(_, _)
SumFrom(acc, s) == IF s = <<>> THEN acc ELSE SumFrom(Add(acc, Head(s)), Tail(s))

-----------------------------------------------------------------------------
(* The state of a kernel session *)

VARIABLES
    nb,       \* the notebook this session runs
    ns,       \* the global names defined so far
    geom,     \* ACSF: the trimer geometry the coordinates cell writes down
    atoms,    \* ACSF: atoms, the 3x3 coordinate array
    Rcut,     \* the cutoff radius
    p,        \* ACSF: the parameter list p (set by the G1 cell and by the G4 cell)
    G0,       \* ACSF: G0[i]
    G1,       \* ACSF: G1[i][k]
    G4,       \* ACSF: G4[i][k]
    reruns,   \* ACSF: how often the G0, G1 or G4 cell ran on an array it had filled before
    dists,    \* ACSF-Dimer: the pair distances of the configurations
    energy,   \* ACSF-Dimer: their Lennard-Jones energies
    params,   \* ACSF-Dimer: the eta/Rs pairs
    acsf,     \* ACSF-Dimer: what the name acsf is bound to
    acsf_mean,\* ACSF-Dimer: the column means the scaling cell computed
    acsf_std, \* ACSF-Dimer: the column deviations the scaling cell computed
    nn,       \* ACSF-Dimer: the regressor
    energyML, \* ACSF-Dimer: the number of predictions of the evaluation cell
    nscale,   \* ACSF-Dimer: how often the scaling cell ran on the present array
    weights,  \* ACSF-Dimer: gen = how often nn's weights were initialised, fits = the fit runs on them
    received, \* ACSF-Dimer: what the last nn.fit or nn.predict call was handed as X
    positions,\* SOAP: NaCl_conv.positions
    soap1,    \* SOAP: the positions soaper.create read when it computed soap1
    soap2,    \* SOAP: the positions soaper.create read when it computed soap2
    file,     \* KRR, NN-Energy: the data on disk: its number of rows, the rank of the reference array
    rand_mol, \* KRR: the value of rand_mol
    shown,    \* KRR: what the last x[rand_mol] gave
    ref,      \* NN-Energy: the shape of validOut
    pred,     \* NN-Energy: the shape of validMLOut
    diff,     \* NN-Energy: the entries of validMLOut-validOut
    arg,      \* the argument of a function evaluated on its own
    res,      \* <<>> before that evaluation, <<result>> after it
    pc,       \* top-to-bottom run: the index of the next statement of the script
    failed,   \* top-to-bottom run: the names whose read raised NameError
    filled,   \* the descriptor arrays whose filling loop ran to its end
    written   \* the cells <<array, row, column>> the last filling loop assigned

acsfVars == <<geom, atoms, p, G0, G1, G4, reruns>>
dimerVars == <<dists, energy, params, acsf, acsf_mean, acsf_std, nn, energyML, nscale, weights,
               received>>
soapVars == <<positions, soap1, soap2>>
dataVars == <<file, rand_mol, shown, ref, pred, diff>>
callVars == <<arg, res, pc, failed>>
vars == <<nb, ns, Rcut, acsfVars, dimerVars, soapVars, dataVars, callVars, filled, written>>

-----------------------------------------------------------------------------
(* ACSF.ipynb, the trimer notebook *)

\* the number of atoms of the trimer: numpy.zeros((3,3)), range(3)
NAtoms == 3
AtomIx == 0 .. (NAtoms - 1)
AtomSeq == [n \in 1 .. NAtoms |-> n - 1]

\* the grid the model draws atom positions from
MaxX == 2
Points == {<<3 * gx, 0, 0>> : gx \in 0 .. MaxX} \cup {<<0, 4, 0>>}
Geoms == [AtomIx -> Points]

RcutValue == FromInt(5)

Imports == {"MLPRegressor", "numpy", "math", "random", "plt", "Axes3D", "view", "Atoms"}

\* def fcut(r) of ACSF.ipynb; rc is the value of the global Rcut at the call
fcut(r, rc) == Mul(Add(Cos(Div(Mul(Pi, r), rc)), One), Half)

\* def G1f(x, eta, Rs)
G1f(x, eta, Rs, rc) ==
    Mul(Exp(Mul(Mul(Neg(eta), Sub(x, Rs)), Sub(x, Rs))),
        Mul(Add(Cos(Div(Mul(Pi, x), rc)), One), Half))

\* def G4f(cost, rij, rik, rjk, eta, zeta, lamb)
G4f(cost, rij, rik, rjk, eta, zeta, lamb, rc) ==
    LET r1 == Mul(Pow(FromInt(2), 1 - zeta), Pow(Add(One, Mul(FromInt(lamb), cost)), zeta))
        r2 == Mul(r1, Exp(Mul(Neg(eta),
                  Add(Add(Mul(rij, rij), Mul(rik, rik)), Mul(rjk, rjk)))))
    IN  Mul(Mul(Mul(r2, fcut(rij, rc)), fcut(rjk, rc)), fcut(rik, rc))

\* p of the G1 cell: eta/Rs pairs
pG1 == << <<Norm(4, -1), Norm(2, -1)>>, <<Norm(4, -1), Norm(5, -1)>>,
          <<Norm(4, -1), Norm(1, 0)>>, <<Norm(5, -1), Norm(2, 0)>>,
          <<Norm(5, -1), Norm(3, 0)>>, <<Norm(5, -1), Norm(4, 0)>> >>

\* p of the G4 cell: eta/zeta/lambda triples
pG4 == << <<Norm(4, -1), 1, 1>>, <<Norm(4, -1), 2, 1>>, <<Norm(4, -1), 3, 1>>,
          <<Norm(8, -1), 1, 1>>, <<Norm(8, -1), 2, 1>> >>

\* numpy.zeros(n) and numpy.zeros((n, m)), indexed from 0
zeros1(n) == [i \in 0 .. (n - 1) |-> Zero]
zeros2(n, m) == [i \in 0 .. (n - 1) |-> [c \in 0 .. (m - 1) |-> Zero]]

\* a variant of Dist that measures atom j from the origin, not from atom i
DistFromOrigin(at, i, j) == norm(at[j])

\* r of the two-body loops: the distance i-j
Dist(at, i, j) == norm(VSub(at[i], at[j]))

\* a variant of PairIter that visits only the atoms after atom i
PairIterAfter(at, i, rc) ==
    SelectSeq(AtomSeq, LAMBDA j : i < j /\ ~Gt(norm(VSub(at[i], at[j])), rc))

\* a variant of PairIter without the test "if i == j: continue"
PairIterSelf(at, i, rc) == SelectSeq(AtomSeq, LAMBDA j : ~Gt(norm(VSub(at[i], at[j])), rc))

\* the neighbours j the two-body loops of the G0 and G1 cells reach for atom i,
\* in loop order: "if i == j: continue", "if r > Rcut: continue"
PairIter(at, i, rc) ==
    SelectSeq(AtomSeq, LAMBDA j : i # j /\ ~Gt(Dist(at, i, j), rc))

\* the G0 loops: G0[i] += fcut(r)
G0Loop(at, rc) ==
    [i \in AtomIx |->
        LET js == PairIter(at, i, rc)
        IN  SumFrom(Zero, [n \in 1 .. Len(js) |-> fcut(Dist(at, i, js[n]), rc)])]

\* the G1 loops: G1[i,k] += G1f(r, eta, rs) with eta, rs = p[k]
G1Loop(at, pl, rc) ==
    [i \in AtomIx |-> [k \in 0 .. (Len(pl) - 1) |->
        LET js == PairIter(at, i, rc)
        IN  SumFrom(Zero, [n \in 1 .. Len(js) |->
                G1f(Dist(at, i, js[n]), pl[k + 1][1], pl[k + 1][2], rc)])]]

\* the G0 and the G1 loops on two atoms at the distance r, with range(2) in
\* place of range(3): for each atom i the row <<G0[i], G1[i,0], G1[i,1], ...>>,
\* indexed from 0
PairLoops(r, pl, rc) ==
    [i \in 0 .. 1 |->
        LET js == SelectSeq(<<0, 1>>, LAMBDA j : i # j /\ ~Gt(r, rc))
        IN  [c \in 0 .. Len(pl) |->
                IF c = 0
                THEN SumFrom(Zero, [n \in 1 .. Len(js) |-> fcut(r, rc)])
                ELSE SumFrom(Zero, [n \in 1 .. Len(js) |->
                         G1f(r, pl[c][1], pl[c][2], rc)])]]

\* range(3) x range(3) in the order of two nested loops
LoopPairs == [n \in 1 .. (NAtoms * NAtoms) |-> <<(n - 1) \div NAtoms, (n - 1) % NAtoms>>]

\* the pairs <<j, k>> the three-body loops reach for atom i, in loop order:
\* "if i == j: continue", "if rij > Rcut: continue", "if k == i or k == j: continue".
\* The innermost "for k in range(len(p))" rebinds the name k, not the iterator
\* of the enclosing "for k in range(3)".
TripleIter(at, i, rc) ==
    SelectSeq(LoopPairs, LAMBDA jk :
        /\ i # jk[1]
        /\ ~Gt(Dist(at, i, jk[1]), rc)
        /\ jk[2] # i /\ jk[2] # jk[1])

\* a variant of NextK that steps over one position
NextKSkip(it, k) == it + 2

\* "for k in range(3)": the position the loop takes its next value from, when
\* its last value came from position it and the body left the name k bound to
\* k.  The iterator of range(3) keeps its own position.
NextK(it, k) == it + 1

\* the updates G4[i,c] += G4f(..., *p[c]) of row i in the order the statements
\* of the G4 loops make them, each as <<j, k, c>>: j and k are the atoms the
\* distances and the cosine were computed from, c is the value the innermost
\* "for k in range(len(p))" has bound to the name k when the update is made.
\* np is len(p).
G4Visits(at, i, rc, np) ==
    LET js == PairIter(at, i, rc)
        RECURSIVE KLoop(_, _)
        KLoop(j, it) ==
            IF it >= NAtoms THEN <<>>
            ELSE IF it = i \/ it = j THEN KLoop(j, NextK(it, it))
            ELSE [c \in 1 .. np |-> <<j, it, c - 1>>]
                     \o KLoop(j, NextK(it, IF np > 0 THEN np - 1 ELSE it))
        RECURSIVE JLoop(_)
        JLoop(n) == IF n > Len(js) THEN <<>> ELSE KLoop(js[n], 0) \o JLoop(n + 1)
    IN  JLoop(1)

\* cost: numpy.dot(atoms[i]-atoms[k], atoms[i]-atoms[j]), then cost /= rij * rik
Cost(at, i, j, k) ==
    Div(FromInt(Dot(VSub(at[i], at[k]), VSub(at[i], at[j]))),
        Mul(Dist(at, i, j), Dist(at, i, k)))

\* the term G4[i,c] += G4f(cost, rij, rik, rjk, eta, zeta, lamb) of one <<j, k>>
G4Term(at, pl, i, j, k, c, rc) ==
    G4f(Cost(at, i, j, k), Dist(at, i, j), Dist(at, i, k), Dist(at, j, k),
        pl[c + 1][1], pl[c + 1][2], pl[c + 1][3], rc)

\* the G4 loops
G4Loop(at, pl, rc) ==
    [i \in AtomIx |-> [c \in 0 .. (Len(pl) - 1) |->
        LET jks == TripleIter(at, i, rc)
        IN  SumFrom(Zero, [n \in 1 .. Len(jks) |->
                G4Term(at, pl, i, jks[n][1], jks[n][2], c, rc)])]]

\* the descriptors of every geometry of the model, evaluated once and tabulated
Tabulate(f) == f @@ <<>>
G0Of == Tabulate([g \in Geoms |-> G0Loop(g, RcutValue)])
G1Of == Tabulate([g \in Geoms |-> G1Loop(g, pG1, RcutValue)])
G4Of == Tabulate([g \in Geoms |-> G4Loop(g, pG4, RcutValue)])

\* the rows a filling loop assigned, with every column of the array
RowsWritten(name, rows, ncols) == {<<name, i, c>> : i \in rows, c \in 0 .. (ncols - 1)}

\* a variant of the imports cell that also rebinds Rcut
AcsfImportsRcut ==
    /\ nb = "ACSF"
    /\ UNCHANGED <<callVars, dataVars>>
    /\ ns' = ns \cup Imports
    /\ Rcut' = FromInt(6)
    /\ UNCHANGED <<nb, geom, atoms, p, G0, G1, G4, reruns, filled, written, dimerVars, soapVars>>

\* the G0, G1 and G4 cells are followed for MaxReruns runs on arrays already filled
MaxReruns == 2

\* cell "INITIAL DEFINITIONS"
AcsfImports ==
    /\ nb = "ACSF"
    /\ UNCHANGED <<callVars, dataVars>>
    /\ ns' = ns \cup Imports
    /\ UNCHANGED <<nb, geom, atoms, Rcut, p, G0, G1, G4, reruns, filled, written, dimerVars,
                   soapVars>>

\* cell "parameters for the trimer": d1, d2, theta, atoms, atoms_sys
AcsfAtoms ==
    /\ nb = "ACSF"
    /\ UNCHANGED <<callVars, dataVars>>
    /\ IF ~({"math", "numpy", "Atoms", "view"} \subseteq ns)
       THEN /\ ns' = ns \cup {"d1", "d2", "theta"}
            /\ UNCHANGED atoms
       ELSE /\ ns' = ns \cup {"d1", "d2", "theta", "atoms", "atoms_sys"}
            /\ atoms' = geom
    /\ UNCHANGED <<nb, geom, Rcut, p, G0, G1, G4, reruns, filled, written, dimerVars, soapVars>>

\* a variant of the G0 cell that sums onto the array it finds
AcsfG0Keep ==
    /\ nb = "ACSF"
    /\ UNCHANGED <<callVars, dataVars>>
    /\ Rcut' = RcutValue
    /\ UNCHANGED <<nb, geom, atoms, p, G1, G4, dimerVars, soapVars>>
    /\ IF "numpy" \notin ns
       THEN /\ ns' = ns \cup {"Rcut", "fcut"}
            /\ UNCHANGED <<G0, reruns, filled, written>>
       ELSE IF "atoms" \notin ns
       THEN /\ ns' = ns \cup {"Rcut", "fcut", "G0"}
            /\ G0' = zeros1(NAtoms)
            /\ filled' = filled \ {"G0"}
            /\ UNCHANGED reruns
            /\ written' = {w \in written : w[1] # "G0"}
       ELSE /\ ns' = ns \cup {"Rcut", "fcut", "G0"}
            /\ G0' = [i \in AtomIx |-> Add(G0[i], G0Of[atoms][i])]
            /\ filled' = filled \cup {"G0"}
            /\ "G0" \in filled => reruns < MaxReruns
            /\ reruns' = IF "G0" \in filled THEN reruns + 1 ELSE reruns
            /\ written' = {w \in written : w[1] # "G0"}
                  \cup RowsWritten("G0", {i \in AtomIx : PairIter(atoms, i, RcutValue) # <<>>}, 1)

\* cell "cutoff distance for all ACSFs": Rcut, fcut, G0
AcsfG0 ==
    /\ nb = "ACSF"
    /\ UNCHANGED <<callVars, dataVars>>
    /\ Rcut' = RcutValue
    /\ UNCHANGED <<nb, geom, atoms, p, G1, G4, dimerVars, soapVars>>
    /\ IF "numpy" \notin ns
       THEN /\ ns' = ns \cup {"Rcut", "fcut"}
            /\ UNCHANGED <<G0, reruns, filled, written>>
       ELSE IF "atoms" \notin ns
       THEN /\ ns' = ns \cup {"Rcut", "fcut", "G0"}
            /\ G0' = zeros1(NAtoms)
            /\ filled' = filled \ {"G0"}
            /\ UNCHANGED reruns
            /\ written' = {w \in written : w[1] # "G0"}
       ELSE /\ ns' = ns \cup {"Rcut", "fcut", "G0"}
            /\ G0' = G0Of[atoms]
            /\ filled' = filled \cup {"G0"}
            /\ "G0" \in filled => reruns < MaxReruns
            /\ reruns' = IF "G0" \in filled THEN reruns + 1 ELSE reruns
            /\ written' = {w \in written : w[1] # "G0"}
                  \cup RowsWritten("G0", {i \in AtomIx : PairIter(atoms, i, RcutValue) # <<>>}, 1)

\* cell "G1 function definition": G1f, G1v, p, datar, G1
AcsfG1 ==
    /\ nb = "ACSF"
    /\ UNCHANGED <<callVars, dataVars>>
    /\ UNCHANGED <<nb, geom, atoms, Rcut, G0, G4, dimerVars, soapVars>>
    /\ IF "numpy" \notin ns
       THEN /\ ns' = ns \cup {"G1f"}
            /\ UNCHANGED <<p, G1, reruns, filled, written>>
       ELSE IF "Rcut" \notin ns
       THEN /\ ns' = ns \cup {"G1f", "G1v", "p"}
            /\ p' = pG1
            /\ UNCHANGED <<G1, reruns, filled, written>>
       ELSE IF "atoms" \notin ns
       THEN /\ ns' = ns \cup {"G1f", "G1v", "p", "datar", "G1"}
            /\ p' = pG1
            /\ G1' = zeros2(NAtoms, Len(pG1))
            /\ filled' = filled \ {"G1"}
            /\ UNCHANGED reruns
            /\ written' = {w \in written : w[1] # "G1"}
       ELSE /\ ns' = ns \cup {"G1f", "G1v", "p", "datar", "G1"}
            /\ p' = pG1
            /\ G1' = G1Of[atoms]
            /\ filled' = filled \cup {"G1"}
            /\ "G1" \in filled => reruns < MaxReruns
            /\ reruns' = IF "G1" \in filled THEN reruns + 1 ELSE reruns
            /\ written' = {w \in written : w[1] # "G1"}
                  \cup RowsWritten("G1", {i \in AtomIx : PairIter(atoms, i, Rcut) # <<>>}, Len(pG1))

\* cell "G4 function definition": G4f, p, G4
AcsfG4 ==
    /\ nb = "ACSF"
    /\ UNCHANGED <<callVars, dataVars>>
    /\ UNCHANGED <<nb, geom, atoms, Rcut, G0, G1, dimerVars, soapVars>>
    /\ p' = pG4
    /\ IF "numpy" \notin ns
       THEN /\ ns' = ns \cup {"G4f", "p"}
            /\ UNCHANGED <<G4, reruns, filled, written>>
       ELSE IF "atoms" \notin ns \/ "Rcut" \notin ns
       THEN /\ ns' = ns \cup {"G4f", "p", "G4"}
            /\ G4' = zeros2(NAtoms, Len(pG4))
            /\ filled' = filled \ {"G4"}
            /\ UNCHANGED reruns
            /\ written' = {w \in written : w[1] # "G4"}
       ELSE /\ ns' = ns \cup {"G4f", "p", "G4"}
            /\ G4' = G4Of[atoms]
            /\ filled' = filled \cup {"G4"}
            /\ "G4" \in filled => reruns < MaxReruns
            /\ reruns' = IF "G4" \in filled THEN reruns + 1 ELSE reruns
            /\ written' = {w \in written : w[1] # "G4"}
                  \cup RowsWritten("G4", {i \in AtomIx : TripleIter(atoms, i, Rcut) # <<>>}, Len(pG4))

\* the values of the variables of a notebook that is not open
AcsfIdle ==
    /\ atoms = [i \in AtomIx |-> <<0, 0, 0>>]
    /\ p = <<>>
    /\ G0 = zeros1(NAtoms)
    /\ G1 = zeros2(NAtoms, Len(pG1))
    /\ G4 = zeros2(NAtoms, Len(pG4))
    /\ reruns = 0

NoArray == [kind |-> "none", val |-> <<>>]

DimerIdle ==
    /\ dists = <<>>
    /\ energy = <<>>
    /\ params = <<>>
    /\ acsf = NoArray
    /\ acsf_mean = <<>>
    /\ acsf_std = <<>>
    /\ nn = "none"
    /\ energyML = 0
    /\ nscale = 0
    /\ weights = [gen |-> 0, fits |-> 0]
    /\ received = [kind |-> "none", rows |-> 0]

\* positions in units of an eighth of the cell edge, each coordinate a pair
\* <<a, b>> that stands for a + b * sqrt(2)
P(a) == <<a, 0>>
Origin == [n \in 1 .. 8 |-> <<P(0), P(0), P(0)>>]

CallIdle ==
    /\ arg = <<>>
    /\ res = <<>>
    /\ pc = 0
    /\ failed = {}

SoapIdle ==
    /\ positions = Origin
    /\ soap1 = Origin
    /\ soap2 = Origin

\* the data files are followed up to MaxRows rows
MaxRows == 5

\* ./data/qm7/HOMO.txt holds one energy per molecule; the array stored in
\* ./data/energy.output.npy is a vector or a column; the other notebooks read
\* neither.  In a fresh kernel none of the names below is bound.
DataIdle ==
    /\ file \in CASE nb = "KRR" -> [rows : 1 .. MaxRows, rank : {1}]
                  [] nb = "NN-Energy" -> [rows : 1 .. MaxRows, rank : {1, 2}]
                  [] OTHER -> {[rows |-> 0, rank |-> 1]}
    /\ rand_mol = 0
    /\ shown = "none"
    /\ ref = <<>>
    /\ pred = <<>>
    /\ diff = {}

AcsfInit ==
    /\ nb = "ACSF"
    /\ ns = {}
    /\ Rcut = Zero
    /\ geom \in Geoms
    /\ AcsfIdle
    /\ DimerIdle
    /\ SoapIdle
    /\ DataIdle
    /\ CallIdle
    /\ filled = {}
    /\ written = {}

AcsfNext == AcsfImports \/ AcsfAtoms \/ AcsfG0 \/ AcsfG1 \/ AcsfG4

-----------------------------------------------------------------------------
(* ACSF-Dimer.ipynb, the dimer notebook *)

\* def fcut(r) of ACSF-Dimer.ipynb
fcutDimer(r, rc) ==
    IF Ge(r, rc) THEN Zero
    ELSE Mul(Add(Cos(Div(Mul(Pi, r), rc)), One), Half)

\* a variant of G1fDimer without the cutoff factor
G1fNoCut(r, eta, Rs, rc) == Exp(Mul(Mul(Neg(eta), Sub(r, Rs)), Sub(r, Rs)))

\* def G1f(r, eta, Rs) of ACSF-Dimer.ipynb
G1fDimer(r, eta, Rs, rc) ==
    Mul(Exp(Mul(Mul(Neg(eta), Sub(r, Rs)), Sub(r, Rs))), fcutDimer(r, rc))

\* the least integer >= a, for a >= 0
Ceil(a) == (Fix4(a) + 9999) \div 10000

\* numpy.arange(start, stop, step), indexed from 0
arange(start, stop, step) ==
    [i \in 0 .. (Ceil(Div(Sub(stop, start), step)) - 1) |-> Add(start, Mul(FromInt(i), step))]

\* the number of elements of an array indexed from 0: shape[0]
Rows(a) == Cardinality(DOMAIN a)

\* dists = numpy.arange(1.95, Rcut, Rcut/30)
DistsValue == Tabulate(arange(Norm(195, -2), RcutValue, Div(RcutValue, FromInt(30))))

\* energy = numpy.power(dists/2,-12)-numpy.power(dists/2,-6) - 2
EnergyOf(d) ==
    [i \in DOMAIN d |->
        Sub(Sub(Pow(Div(d[i], FromInt(2)), -12), Pow(Div(d[i], FromInt(2)), -6)), FromInt(2))]
EnergyValue == Tabulate(EnergyOf(DistsValue))

\* params = [(0.4, 0.2),(0.4, 0.5)]
ParamsValue == << <<Norm(4, -1), Norm(2, -1)>>, <<Norm(4, -1), Norm(5, -1)>> >>

\* a variant of AcsfLoop that stops one configuration early
AcsfLoopShort(d, pl, rc) ==
    [k \in 0 .. (Rows(d) - 2) |-> [c \in 0 .. Len(pl) |->
        IF c = 0 THEN fcutDimer(d[k], rc)
        ELSE G1fDimer(d[k], pl[c][1], pl[c][2], rc)]]

\* the loop "for k in range(nConfs)": acsf[k,0] = fcut(r), acsf[k,1+p] = G1f(r, eta, rs)
AcsfLoop(d, pl, rc) ==
    [k \in 0 .. (Rows(d) - 1) |-> [c \in 0 .. Len(pl) |->
        IF c = 0 THEN fcutDimer(d[k], rc)
        ELSE G1fDimer(d[k], pl[c][1], pl[c][2], rc)]]
AcsfValue == Tabulate(AcsfLoop(DistsValue, ParamsValue, RcutValue))

\* column a of a matrix, as the sequence of its entries from row 0
Column(mat, a) == [n \in 1 .. Rows(mat) |-> mat[n - 1][a]]
NCols(mat) == IF Rows(mat) = 0 THEN 0 ELSE Rows(mat[0])

\* numpy.mean of a sequence
Mean(s) == Div(SumFrom(Zero, s), FromInt(Len(s)))
\* numpy.std of a sequence: sqrt(mean(abs(x - x.mean())**2))
Std(s) ==
    LET mu == Mean(s)
    IN  Sqrt(Mean([n \in 1 .. Len(s) |-> Mul(Sub(s[n], mu), Sub(s[n], mu))]))

\* numpy.mean(acsf, axis=0) and numpy.std(acsf, axis=0)
ColMeans(mat) == [a \in 0 .. (NCols(mat) - 1) |-> Mean(Column(mat, a))]
ColStds(mat) == [a \in 0 .. (NCols(mat) - 1) |-> Std(Column(mat, a))]

\* "for a in range(acsf.shape[1]): acsf[:,a] -= acsf_mean[a]"
Shifted(mat, mu) == [k \in DOMAIN mat |-> [a \in DOMAIN mat[k] |-> Sub(mat[k][a], mu[a])]]
\* "for a in range(acsf.shape[1]): acsf[:,a] /= acsf_std[a]"
Scaled(mat, sd) == [k \in DOMAIN mat |-> [a \in DOMAIN mat[k] |-> Div(mat[k][a], sd[a])]]

\* the scaling cell is followed for at most MaxScale runs on one array
MaxScale == 2

\* the training cell is followed until the weights were drawn MaxInit times
MaxInit == 2

\* MLPRegressor(hidden_layer_sizes=(5,), activation='tanh'): warm_start is left
\* at its default, and nn.set_params(...) of the training cell does not set it
WarmStart == FALSE

\* nn.fit: unless warm_start is set, the weights are drawn anew before the run
Fit(w, warm) ==
    IF warm /\ w.fits > 0
    THEN [gen |-> w.gen, fits |-> w.fits + 1]
    ELSE [gen |-> w.gen + 1, fits |-> 1]

\* the X argument of nn.fit(acsf, energy) and nn.predict(acsf), as the
\* estimator sees it: the kind of object and its number of rows
Handed(a) == [kind |-> a.kind, rows |-> IF a.kind = "ndarray" THEN Rows(a.val) ELSE 0]

\* cell "INITIAL DEFINITIONS": the imports, Rcut, fcut, G1f
DimerDefs ==
    /\ nb = "ACSF-Dimer"
    /\ UNCHANGED <<callVars, dataVars>>
    /\ ns' = ns \cup Imports \cup {"Rcut", "fcut", "G1f"}
    /\ Rcut' = RcutValue
    /\ UNCHANGED <<nb, acsfVars, soapVars, dimerVars, filled, written>>

\* cell "array of meaningful distances": dists, energy
DimerDists ==
    /\ nb = "ACSF-Dimer"
    /\ UNCHANGED <<callVars, dataVars>>
    /\ {"numpy", "Rcut"} \subseteq ns
    /\ ns' = ns \cup {"dists", "energy"}
    /\ dists' = DistsValue
    /\ energy' = EnergyValue
    /\ UNCHANGED <<nb, Rcut, acsfVars, soapVars, params, acsf, acsf_mean, acsf_std, nn, energyML,
                   nscale, weights, received, filled, written>>

\* cell "ACSFs G1 parameter pairs": params, nConfs, acsf
DimerAcsf ==
    /\ nb = "ACSF-Dimer"
    /\ UNCHANGED <<callVars, dataVars>>
    /\ params' = ParamsValue
    /\ UNCHANGED <<nb, Rcut, acsfVars, soapVars, dists, energy, acsf_mean, acsf_std, nn, energyML,
                   weights, received>>
    /\ IF "dists" \notin ns
       THEN /\ ns' = ns \cup {"params"}
            /\ UNCHANGED <<acsf, nscale, filled, written>>
       ELSE /\ ns' = ns \cup {"params", "nConfs", "acsf"}
            /\ acsf' = [kind |-> "ndarray", val |-> AcsfValue]
            /\ nscale' = 0
            /\ filled' = filled \cup {"acsf"}
            /\ written' = RowsWritten("acsf", DOMAIN dists, 1 + Len(ParamsValue))

\* cell "OPTIONAL TRICK": acsf_mean, acsf_std, acsf shifted and scaled in place
DimerScale ==
    /\ nb = "ACSF-Dimer"
    /\ UNCHANGED <<callVars, dataVars>>
    /\ {"numpy", "acsf"} \subseteq ns
    /\ acsf.kind = "ndarray"
    /\ nscale < MaxScale
    /\ nscale' = nscale + 1
    /\ LET mu == ColMeans(acsf.val)
           sh == Shifted(acsf.val, mu)
           sd == ColStds(sh)
       IN  /\ acsf_mean' = mu
           /\ acsf_std' = sd
           /\ acsf' = [kind |-> "ndarray", val |-> Scaled(sh, sd)]
    /\ ns' = ns \cup {"acsf_mean", "acsf_std"}
    /\ UNCHANGED <<nb, Rcut, acsfVars, soapVars, dists, energy, params, nn, energyML, weights,
                   received, filled, written>>

\* cell "setup the neural network": nn
DimerNN ==
    /\ nb = "ACSF-Dimer"
    /\ UNCHANGED <<callVars, dataVars>>
    /\ "MLPRegressor" \in ns
    /\ ns' = ns \cup {"nn"}
    /\ nn' = "new"
    /\ weights' = [gen |-> weights.gen, fits |-> 0]
    /\ UNCHANGED <<nb, Rcut, acsfVars, soapVars, dists, energy, params, acsf, acsf_mean, acsf_std,
                   energyML, nscale, received, filled, written>>

\* cell "change some training parameters": nn.set_params(...), nn.fit(acsf, energy)
DimerTrain ==
    /\ nb = "ACSF-Dimer"
    /\ UNCHANGED <<callVars, dataVars>>
    /\ {"nn", "acsf", "energy"} \subseteq ns
    /\ received' = Handed(acsf)
    /\ IF acsf.kind = "ndarray"
       THEN /\ weights.gen < MaxInit
            /\ nn' = "fitted"
            /\ weights' = Fit(weights, WarmStart)
       ELSE UNCHANGED <<nn, weights>>
    /\ UNCHANGED <<nb, ns, Rcut, acsfVars, soapVars, dists, energy, params, acsf, acsf_mean, acsf_std,
                   energyML, nscale, filled, written>>

\* a variant of the evaluation cell that centres acsf in place before predicting
DimerEvalInPlace ==
    /\ nb = "ACSF-Dimer"
    /\ UNCHANGED <<callVars, dataVars>>
    /\ {"nn", "acsf", "energy"} \subseteq ns
    /\ nn = "fitted"
    /\ acsf.kind = "ndarray"
    /\ ns' = ns \cup {"energyML"}
    /\ energyML' = Rows(acsf.val)
    /\ acsf' = [kind |-> "ndarray", val |-> Shifted(acsf.val, ColMeans(acsf.val))]
    /\ received' = Handed(acsf)
    /\ UNCHANGED <<nb, Rcut, acsfVars, soapVars, dists, energy, params, acsf_mean, acsf_std,
                   nn, nscale, weights, filled, written>>

\* cell "evaluate the training error": energyML = nn.predict(acsf)
DimerEval ==
    /\ nb = "ACSF-Dimer"
    /\ UNCHANGED <<callVars, dataVars>>
    /\ {"nn", "acsf"} \subseteq ns
    /\ nn = "fitted"
    /\ received' = Handed(acsf)
    /\ IF acsf.kind = "ndarray"
       THEN /\ ns' = ns \cup {"energyML"}
            /\ energyML' = Rows(acsf.val)
       ELSE UNCHANGED <<ns, energyML>>
    /\ UNCHANGED <<nb, Rcut, acsfVars, soapVars, dists, energy, params, acsf, acsf_mean, acsf_std,
                   nn, nscale, weights, filled, written>>

\* cell "atomic positions as matrix": molxyz, moltyp, atoms_sys
DimerMol ==
    /\ nb = "ACSF-Dimer"
    /\ UNCHANGED <<callVars, dataVars>>
    /\ {"numpy", "Atoms", "view"} \subseteq ns
    /\ ns' = ns \cup {"molxyz", "moltyp", "atoms_sys"}
    /\ UNCHANGED <<nb, Rcut, acsfVars, soapVars, dimerVars, filled, written>>

\* cell "from dscribe.descriptors import ACSF": acsf = ACSF(...)
DimerDescriptor ==
    /\ nb = "ACSF-Dimer"
    /\ UNCHANGED <<callVars, dataVars>>
    /\ ns' = ns \cup {"ACSF", "acsf"}
    /\ acsf' = [kind |-> "ACSF", val |-> <<>>]
    /\ nscale' = 0
    /\ filled' = filled \ {"acsf"}
    /\ written' = {}
    /\ UNCHANGED <<nb, Rcut, acsfVars, soapVars, dists, energy, params, acsf_mean, acsf_std, nn,
                   energyML, weights, received>>

DimerInit ==
    /\ nb = "ACSF-Dimer"
    /\ ns = {}
    /\ Rcut = Zero
    /\ geom = [i \in AtomIx |-> <<0, 0, 0>>]
    /\ AcsfIdle
    /\ DimerIdle
    /\ SoapIdle
    /\ DataIdle
    /\ CallIdle
    /\ filled = {}
    /\ written = {}

DimerNext ==
    \/ DimerDefs \/ DimerDists \/ DimerAcsf \/ DimerScale \/ DimerNN
    \/ DimerTrain \/ DimerEval \/ DimerMol \/ DimerDescriptor

-----------------------------------------------------------------------------
(* ACSF.ipynb, the SOAP notebook *)

\* scaled_positions of NaCl_conv, times the cell edge
NaClValue ==
    << <<P(0), P(4), P(0)>>, <<P(0), P(4), P(4)>>, <<P(0), P(0), P(4)>>, <<P(0), P(0), P(0)>>,
       <<P(4), P(4), P(4)>>, <<P(4), P(4), P(0)>>, <<P(4), P(0), P(0)>>, <<P(4), P(0), P(4)>> >>

PAdd(u, v) == <<u[1] + v[1], u[2] + v[2]>>
PSub(u, v) == <<u[1] - v[1], u[2] - v[2]>>
PNeg(u) == <<0 - u[1], 0 - u[2]>>
\* (a + b sqrt 2) / 2
PHalf(u) == <<u[1] \div 2, u[2] \div 2>>
\* (a + b sqrt 2) / sqrt 2 = b + (a / 2) sqrt 2
PDivSqrt2(u) == <<u[2], u[1] \div 2>>

\* the rotation by 90 degrees about the axis [0,1,1] through calcpos = [0,0,0]:
\* v' = k x v + k (k . v) with k = [0,1,1] / sqrt 2
Rotate1(v) ==
    LET h == PHalf(PAdd(v[2], v[3]))
    IN  <<PDivSqrt2(PSub(v[3], v[2])), PAdd(PDivSqrt2(v[1]), h), PAdd(PNeg(PDivSqrt2(v[1])), h)>>

\* NaCl_conv.rotate(90, [0,1,1], center=calcpos): every position, in place
rotate(pos) == [n \in DOMAIN pos |-> Rotate1(pos[n])]

SoapImportNames == {"numpy", "math", "random", "view", "Atoms", "sys", "SOAP"}

\* cell "INITIAL DEFINITIONS"
SoapImports ==
    /\ nb = "SOAP"
    /\ UNCHANGED <<callVars, dataVars>>
    /\ ns' = ns \cup SoapImportNames
    /\ UNCHANGED <<nb, Rcut, acsfVars, dimerVars, soapVars, filled, written>>

\* cell "Define the system under study": NaCl_conv = Atoms(...)
SoapSystem ==
    /\ nb = "SOAP"
    /\ UNCHANGED <<callVars, dataVars>>
    /\ "Atoms" \in ns
    /\ ns' = ns \cup {"NaCl_conv"}
    /\ positions' = NaClValue
    /\ UNCHANGED <<nb, Rcut, acsfVars, dimerVars, soap1, soap2, filled, written>>

\* cell "Computing SOAP": calcpos, soaper
SoapSetup ==
    /\ nb = "SOAP"
    /\ UNCHANGED <<callVars, dataVars>>
    /\ ns' = ns \cup (IF "SOAP" \in ns THEN {"calcpos", "soaper"} ELSE {"calcpos"})
    /\ UNCHANGED <<nb, Rcut, acsfVars, dimerVars, soapVars, filled, written>>

\* cell "calculation": soap1 = soaper.create(NaCl_conv, positions=[calcpos])
SoapCreate1 ==
    /\ nb = "SOAP"
    /\ UNCHANGED <<callVars, dataVars>>
    /\ {"soaper", "NaCl_conv"} \subseteq ns
    /\ ns' = ns \cup {"soap1"}
    /\ soap1' = positions
    /\ UNCHANGED <<nb, Rcut, acsfVars, dimerVars, positions, soap2, filled, written>>

\* cell "Rotation of positions"
SoapRotate ==
    /\ nb = "SOAP"
    /\ UNCHANGED <<callVars, dataVars>>
    /\ {"NaCl_conv", "calcpos"} \subseteq ns
    /\ positions' = rotate(positions)
    /\ UNCHANGED <<nb, ns, Rcut, acsfVars, dimerVars, soap1, soap2, filled, written>>

\* a variant of the soap2 cell whose descriptor computation turns the positions
SoapCreate2Turns ==
    /\ nb = "SOAP"
    /\ UNCHANGED <<callVars, dataVars>>
    /\ {"soaper", "NaCl_conv"} \subseteq ns
    /\ ns' = ns \cup {"soap2"}
    /\ soap2' = positions
    /\ positions' = rotate(positions)
    /\ UNCHANGED <<nb, Rcut, acsfVars, dimerVars, soap1, filled, written>>

\* cell "soap2 = soaper.create(NaCl_conv, positions=[calcpos])"
SoapCreate2 ==
    /\ nb = "SOAP"
    /\ UNCHANGED <<callVars, dataVars>>
    /\ {"soaper", "NaCl_conv"} \subseteq ns
    /\ ns' = ns \cup {"soap2"}
    /\ soap2' = positions
    /\ UNCHANGED <<nb, Rcut, acsfVars, dimerVars, positions, soap1, filled, written>>

\* cell "atomic positions as matrix": molxyz, moltyp, atoms_sys
SoapMol ==
    /\ nb = "SOAP"
    /\ UNCHANGED <<callVars, dataVars>>
    /\ {"numpy", "Atoms"} \subseteq ns
    /\ ns' = ns \cup {"molxyz", "moltyp", "atoms_sys"}
    /\ UNCHANGED <<nb, Rcut, acsfVars, dimerVars, soapVars, filled, written>>

SoapInit ==
    /\ nb = "SOAP"
    /\ ns = {}
    /\ Rcut = Zero
    /\ geom = [i \in AtomIx |-> <<0, 0, 0>>]
    /\ AcsfIdle
    /\ DimerIdle
    /\ SoapIdle
    /\ DataIdle
    /\ CallIdle
    /\ filled = {}
    /\ written = {}

SoapNext ==
    \/ SoapImports \/ SoapSystem \/ SoapSetup \/ SoapCreate1
    \/ SoapRotate \/ SoapCreate2 \/ SoapMol

-----------------------------------------------------------------------------
(* The kernel-ridge notebook of ACSF.ipynb up to the cells that show a random
   molecule, and the energy notebook of ACSF-Dimer.ipynb up to the cell that
   reports the errors of the keras model. *)

\* random.randint(a, b): the integers N with a <= N <= b
randint(a, b) == a .. b

\* x[k] on an array of n rows
Index(n, k) == IF -n <= k /\ k < n THEN "row" ELSE "IndexError"

\* cell "import numpy as np ..."
KrrImports ==
    /\ nb = "KRR"
    /\ ns' = ns \cup {"np", "math", "random", "plt", "pd", "json", "sns", "load_npz",
                      "LinearSegmentedColormap", "GridSearchCV", "KernelRidge", "r2_score"}
    /\ UNCHANGED <<nb, Rcut, acsfVars, dimerVars, soapVars, dataVars, callVars, filled, written>>

\* cell "x = load_npz(...).toarray()": x, y
KrrLoad ==
    /\ nb = "KRR"
    /\ {"load_npz", "np"} \subseteq ns
    /\ ns' = ns \cup {"x", "y"}
    /\ UNCHANGED <<nb, Rcut, acsfVars, dimerVars, soapVars, dataVars, callVars, filled, written>>

\* cell "rand_mol = random.randint(0, len(y))": rand_mol, print(x[rand_mol])
KrrPick ==
    /\ nb = "KRR"
    /\ {"random", "y", "x"} \subseteq ns
    /\ rand_mol' \in randint(0, file.rows)
    /\ ns' = ns \cup {"rand_mol"}
    /\ shown' = Index(file.rows, rand_mol')
    /\ UNCHANGED <<nb, Rcut, acsfVars, dimerVars, soapVars, file, ref, pred, diff, callVars,
                   filled, written>>

\* cell "shape = (23, 23)": shape, mat = x[rand_mol].reshape(shape)
KrrShow ==
    /\ nb = "KRR"
    /\ {"x", "rand_mol", "plt"} \subseteq ns
    /\ shown' = Index(file.rows, rand_mol)
    /\ ns' = ns \cup (IF shown' = "row" THEN {"shape", "mat"} ELSE {"shape"})
    /\ UNCHANGED <<nb, Rcut, acsfVars, dimerVars, soapVars, file, rand_mol, ref, pred, diff,
                   callVars, filled, written>>

\* a - b of two arrays of the shapes sa and sb, of rank one or two, as numpy
\* broadcasts them: the shapes are aligned at their last axis and an axis of
\* length one is stretched.  Each entry names its place in the result and the
\* sample (the index along the first axis) it takes from a and from b.
Subtract(sa, sb) ==
    LET pad(s) == IF Len(s) = 1 THEN <<1, s[1]>> ELSE s
        len(k) == IF pad(sa)[k] = 1 THEN pad(sb)[k] ELSE pad(sa)[k]
        own(s, at) == [k \in 1 .. 2 |-> IF pad(s)[k] = 1 THEN 0 ELSE at[k]]
        sample(s, at) == IF Len(s) = 1 THEN own(s, at)[2] ELSE own(s, at)[1]
    IN  {[at |-> <<u, v>>, a |-> sample(sa, <<u, v>>), b |-> sample(sb, <<u, v>>)] :
            u \in 0 .. (len(1) - 1), v \in 0 .. (len(2) - 1)}

\* cell "INITIAL DEFINITIONS" of the energy notebook
NneImports ==
    /\ nb = "NN-Energy"
    /\ ns' = ns \cup {"MLPRegressor", "numpy", "math", "random", "plt", "load_npz", "Axes3D",
                      "Sequential", "Dense"}
    /\ UNCHANGED <<nb, Rcut, acsfVars, dimerVars, soapVars, dataVars, callVars, filled, written>>

\* cell "TYPE = ...": TYPE, desc, l
NneType ==
    /\ nb = "NN-Energy"
    /\ ns' = ns \cup {"TYPE", "desc", "l"}
    /\ UNCHANGED <<nb, Rcut, acsfVars, dimerVars, soapVars, dataVars, callVars, filled, written>>

\* cell "load input/output data": trainIn, trainOut, validIn, validOut
NneLoad ==
    /\ nb = "NN-Energy"
    /\ {"load_npz", "numpy", "TYPE"} \subseteq ns
    /\ ns' = ns \cup {"trainIn", "trainOut", "samples", "vsamples", "validIn", "validOut",
                      "train_mean", "train_std"}
    /\ ref' = IF file.rank = 1 THEN <<file.rows>> ELSE <<file.rows, 1>>
    /\ UNCHANGED <<nb, Rcut, acsfVars, dimerVars, soapVars, file, rand_mol, shown, pred, diff,
                   callVars, filled, written>>

\* cell "model = Sequential()": the last layer is Dense(units=1)
NneModel ==
    /\ nb = "NN-Energy"
    /\ {"Sequential", "Dense"} \subseteq ns
    /\ ns' = ns \cup {"model"}
    /\ UNCHANGED <<nb, Rcut, acsfVars, dimerVars, soapVars, dataVars, callVars, filled, written>>

\* cell "evaluate the training and validation error": model.predict gives one
\* row per sample and one column per unit of the last layer
NneEval ==
    /\ nb = "NN-Energy"
    /\ {"model", "trainIn", "validIn", "numpy"} \subseteq ns
    /\ ns' = ns \cup {"trainMLOut", "validMLOut"}
    /\ pred' = <<file.rows, 1>>
    /\ diff' = Subtract(pred', ref)
    /\ UNCHANGED <<nb, Rcut, acsfVars, dimerVars, soapVars, file, rand_mol, shown, ref, callVars,
                   filled, written>>

DataInit ==
    /\ nb \in {"KRR", "NN-Energy"}
    /\ ns = {}
    /\ Rcut = Zero
    /\ geom = [i \in AtomIx |-> <<0, 0, 0>>]
    /\ AcsfIdle
    /\ DimerIdle
    /\ SoapIdle
    /\ DataIdle
    /\ CallIdle
    /\ filled = {}
    /\ written = {}

DataNext ==
    \/ KrrImports \/ KrrLoad \/ KrrPick \/ KrrShow
    \/ NneImports \/ NneType \/ NneLoad \/ NneModel \/ NneEval

-----------------------------------------------------------------------------
(* The cutoff function evaluated on its own, in a kernel where the cell that
   defines it has run: r is drawn from a grid of quarters up to MaxR / 4. *)

MaxR == 48
Radii == {Div(FromInt(n), FromInt(4)) : n \in 0 .. MaxR}

FcutInit ==
    /\ nb \in {"ACSF", "ACSF-Dimer"}
    /\ ns = Imports \cup {"Rcut", "fcut"}
    /\ Rcut = RcutValue
    /\ geom = [i \in AtomIx |-> <<0, 0, 0>>]
    /\ AcsfIdle
    /\ DimerIdle
    /\ SoapIdle
    /\ DataIdle
    /\ arg \in Radii
    /\ res = <<>>
    /\ pc = 0
    /\ failed = {}
    /\ filled = {}
    /\ written = {}

\* fcut(r) as the G0 cell of ACSF.ipynb defines it
CallFcut ==
    /\ nb = "ACSF"
    /\ res = <<>>
    /\ res' = <<fcut(arg, Rcut)>>
    /\ UNCHANGED <<nb, ns, Rcut, acsfVars, dimerVars, soapVars, dataVars, arg, pc, failed, filled, written>>

\* fcut(r) as the first cell of ACSF-Dimer.ipynb defines it
CallFcutDimer ==
    /\ nb = "ACSF-Dimer"
    /\ res = <<>>
    /\ res' = <<fcutDimer(arg, Rcut)>>
    /\ UNCHANGED <<nb, ns, Rcut, acsfVars, dimerVars, soapVars, dataVars, arg, pc, failed, filled, written>>

FcutNext == CallFcut \/ CallFcutDimer
SpecFcut == FcutInit /\ [][FcutNext]_vars

-----------------------------------------------------------------------------
(* The three descriptor cells of ACSF.ipynb run on a coordinate array and on
   the same array reordered, translated or rotated. *)

Perms == {q \in [AtomIx -> AtomIx] : \A i, j \in AtomIx : q[i] = q[j] => i = j}
Shifts == {<<1, 2, 3>>, <<-3, 0, 5>>}
Turns == {"x", "z"}

NoShift == <<0, 0, 0>>
IdPerm == [i \in AtomIx |-> i]
Transforms ==
    {[kind |-> "perm", pi |-> q, t |-> NoShift, axis |-> "none"] : q \in Perms}
    \cup {[kind |-> "shift", pi |-> IdPerm, t |-> v, axis |-> "none"] : v \in Shifts}
    \cup {[kind |-> "turn", pi |-> IdPerm, t |-> NoShift, axis |-> a] : a \in Turns}

\* the array with atom i moved to row q[i]
Permuted(at, q) == [r \in AtomIx |-> at[CHOOSE i \in AtomIx : q[i] = r]]
\* the array with v added to every row
Translated(at, v) == [i \in AtomIx |-> <<at[i][1] + v[1], at[i][2] + v[2], at[i][3] + v[3]>>]
\* the array with every row turned by 90 degrees about the x or the z axis
Turned(at, a) ==
    [i \in AtomIx |->
        IF a = "x" THEN <<at[i][1], 0 - at[i][3], at[i][2]>>
        ELSE <<0 - at[i][2], at[i][1], at[i][3]>>]

SymAllNames ==
    Imports \cup {"d1", "d2", "theta", "atoms", "atoms_sys", "Rcut", "fcut", "G0",
                  "G1f", "p", "datar", "G1", "G4f", "G4"}

SymInit ==
    /\ nb = "ACSF"
    /\ ns = SymAllNames
    /\ Rcut = RcutValue
    /\ geom \in Geoms
    /\ AcsfIdle
    /\ DimerIdle
    /\ SoapIdle
    /\ DataIdle
    /\ arg \in Transforms
    /\ res = <<>>
    /\ pc = 0
    /\ failed = {}
    /\ filled = {}
    /\ written = {}

\* the atoms cell with the array tg, then the G0, G1 and G4 cells
SymCells(tg) ==
    /\ atoms' = tg
    /\ G0' = G0Loop(tg, Rcut)
    /\ G1' = G1Loop(tg, pG1, Rcut)
    /\ G4' = G4Loop(tg, pG4, Rcut)
    /\ p' = pG4
    /\ filled' = {"G0", "G1", "G4"}
    /\ UNCHANGED <<nb, ns, Rcut, geom, reruns, dimerVars, soapVars, dataVars, arg, pc, failed,
                   written>>

SymPermute ==
    /\ res = <<>>
    /\ arg.kind = "perm"
    /\ res' = <<"perm">>
    /\ SymCells(Permuted(geom, arg.pi))

SymTranslate ==
    /\ res = <<>>
    /\ arg.kind = "shift"
    /\ res' = <<"shift">>
    /\ SymCells(Translated(geom, arg.t))

SymRotate ==
    /\ res = <<>>
    /\ arg.kind = "turn"
    /\ res' = <<"turn">>
    /\ SymCells(Turned(geom, arg.axis))

SymNext == SymPermute \/ SymTranslate \/ SymRotate
SpecSym == SymInit /\ [][SymNext]_vars

-----------------------------------------------------------------------------
(* The notebooks as scripts: the top-level statements of the code cells, top to
   bottom, each with the number of its cell, its line in the source file, the
   names it reads before binding them itself (a call of a function defined in
   the notebook reads the globals of its body) and the names it binds. *)

St(c, l, u, d) == [cell |-> c, line |-> l, uses |-> u, defs |-> d]

\* ACSF-Dimer.ipynb, lines 1-372: Atom Centered Symmetry Functions, a practical example
DimerScript == <<
    St(1, 37, {}, {"MLPRegressor"}),
    St(1, 38, {}, {"numpy", "math", "random"}),
    St(1, 39, {}, {"plt"}),
    St(1, 40, {}, {"Axes3D"}),
    St(1, 41, {}, {"Atoms"}),
    St(1, 42, {}, {"view"}),
    St(1, 45, {}, {"Rcut"}),
    St(1, 48, {}, {"fcut"}),
    St(1, 53, {}, {"G1f"}),
    St(2, 75, {"numpy", "Rcut"}, {"dists"}),
    St(2, 77, {"numpy", "dists"}, {"energy"}),
    St(2, 79, {"plt", "dists", "energy"}, {}),
    St(2, 80, {"plt"}, {}),
    St(2, 81, {"plt"}, {}),
    St(2, 82, {"plt"}, {}),
    St(3, 101, {}, {"params"}),
    St(3, 104, {"dists"}, {"nConfs"}),
    St(3, 105, {"numpy", "nConfs", "params"}, {"acsf"}),
    St(3, 107, {"nConfs"}, {}),
    St(3, 108, {"acsf"}, {}),
    St(3, 111, {"nConfs", "dists", "fcut", "Rcut", "math", "acsf", "params", "G1f"}, {"k", "r",
          "p", "eta", "rs"}),
    St(3, 125, {"acsf", "plt", "dists"}, {"a"}),
    St(3, 127, {"plt"}, {}),
    St(3, 128, {"plt"}, {}),
    St(3, 129, {"plt"}, {}),
    St(4, 147, {"numpy", "acsf"}, {"acsf_mean"}),
    St(4, 148, {"acsf", "acsf_mean"}, {"a"}),
    St(4, 150, {"numpy", "acsf"}, {"acsf_std"}),
    St(4, 151, {"acsf", "acsf_std"}, {"a"}),
    St(4, 155, {"acsf", "plt", "dists"}, {"a"}),
    St(4, 157, {"plt"}, {}),
    St(4, 158, {"plt"}, {}),
    St(4, 159, {"plt"}, {}),
    St(5, 180, {"MLPRegressor"}, {"nn"}),
    St(6, 197, {"nn"}, {}),
    St(6, 199, {"nn", "acsf", "energy"}, {}),
    St(7, 209, {"nn", "acsf"}, {"energyML"}),
    St(7, 211, {"numpy", "energyML", "energy"}, {}),
    St(7, 214, {"plt", "dists", "energy"}, {}),
    St(7, 215, {"plt", "dists", "energyML"}, {}),
    St(7, 216, {"plt"}, {}),
    St(7, 217, {"plt"}, {}),
    St(7, 218, {"plt"}, {}),
    St(7, 221, {"plt", "energy", "energyML"}, {}),
    St(7, 222, {"plt"}, {}),
    St(7, 223, {"plt"}, {}),
    St(7, 224, {"plt"}, {}),
    St(7, 225, {"plt"}, {}),
    St(8, 315, {"numpy"}, {"molxyz"}),
    St(8, 317, {"numpy"}, {"moltyp"}),
    St(8, 319, {"Atoms", "molxyz", "moltyp"}, {"atoms_sys"}),
    St(8, 320, {"view", "atoms_sys"}, {}),
    St(9, 329, {}, {"ACSF"}),
    St(9, 332, {"ACSF"}, {"acsf"}) >>

\* ACSF-Dimer.ipynb, lines 374-878: Total Energy Prediction - Neural Network
NNEnergyScript == <<
    St(1, 403, {}, {"MLPRegressor"}),
    St(1, 404, {}, {"numpy", "math", "random"}),
    St(1, 405, {}, {"plt"}),
    St(1, 406, {}, {"load_npz"}),
    St(1, 407, {}, {"Axes3D"}),
    St(1, 409, {}, {"Sequential"}),
    St(1, 410, {}, {"Dense"}),
    St(2, 454, {}, {"TYPE"}),
    St(2, 457, {}, {}),
    St(2, 458, {"TYPE"}, {"desc"}),
    St(2, 459, {"desc"}, {"l"}),
    St(2, 460, {}, {}),
    St(3, 514, {"load_npz", "TYPE"}, {"trainIn"}),
    St(3, 515, {"numpy"}, {"trainOut"}),
    St(3, 516, {"trainIn", "numpy"}, {"trainIn"}),
    St(3, 519, {"trainIn"}, {"samples"}),
    St(3, 520, {"trainIn", "samples"}, {"vsamples"}),
    St(3, 521, {"samples"}, {}),
    St(3, 522, {"vsamples"}, {}),
    St(3, 523, {"trainIn"}, {}),
    St(3, 526, {"trainIn", "samples", "vsamples"}, {"validIn"}),
    St(3, 527, {"trainOut", "samples", "vsamples"}, {"validOut"}),
    St(3, 529, {"trainIn", "samples"}, {"trainIn"}),
    St(3, 530, {"trainOut", "samples"}, {"trainOut"}),
    St(3, 533, {"numpy", "trainIn"}, {"train_mean"}),
    St(3, 534, {"numpy", "trainIn"}, {"train_std"}),
    St(3, 535, {"train_std"}, {}),
    St(3, 536, {"trainIn", "train_mean"}, {"a"}),
    St(3, 539, {"trainIn", "train_std"}, {"a"}),
    St(3, 542, {"validIn", "train_mean"}, {"a"}),
    St(3, 544, {"validIn", "train_std"}, {"a"}),
    St(3, 549, {}, {}),
    St(3, 550, {"trainIn"}, {}),
    St(4, 578, {"trainIn"}, {}),
    St(5, 588, {"MLPRegressor"}, {"nn"}),
    St(6, 624, {"Sequential"}, {"model"}),
    St(6, 625, {"model", "Dense"}, {}),
    St(6, 626, {"model", "Dense"}, {}),
    St(6, 627, {"model", "Dense"}, {}),
    St(6, 628, {"model", "Dense"}, {}),
    St(6, 629, {"model", "Dense"}, {}),
    St(7, 647, {"model"}, {}),
    St(8, 694, {"model", "trainIn", "trainOut", "validIn", "validOut"}, {"hist"}),
    St(9, 735, {"validMLOut"}, {}),
    St(10, 745, {"nn"}, {}),
    St(10, 747, {"nn", "trainIn", "trainOut"}, {}),
    St(11, 797, {"model", "trainIn"}, {"trainMLOut"}),
    St(11, 798, {"model", "validIn"}, {"validMLOut"}),
    St(11, 800, {"numpy", "trainMLOut", "trainOut"}, {}),
    St(11, 801, {"numpy", "validMLOut", "validOut"}, {}),
    St(11, 803, {"plt", "validOut", "validMLOut"}, {}),
    St(11, 804, {"plt", "validOut"}, {}),
    St(11, 805, {"plt"}, {}),
    St(11, 806, {"plt"}, {}),
    St(11, 807, {"plt"}, {}),
    St(11, 810, {"plt", "validMLOut", "validOut"}, {}),
    St(11, 811, {"plt"}, {}),
    St(11, 812, {"plt"}, {}),
    St(11, 813, {"plt"}, {}) >>

\* ACSF-Dimer.ipynb, lines 880-1162: Many Body Tensor Representation
MBTRScript == <<
    St(1, 941, {}, {"MBTR"}),
    St(1, 942, {}, {"np"}),
    St(1, 943, {}, {"view"}),
    St(1, 944, {}, {"Atoms"}),
    St(1, 945, {}, {"mpl"}),
    St(2, 964, {"Atoms"}, {"NaCl_conv"}),
    St(2, 982, {"view", "NaCl_conv"}, {}),
    St(3, 1010, {"MBTR"}, {"mbtr"}),
    St(3, 1030, {"mbtr"}, {}),
    St(4, 1049, {"mbtr", "NaCl_conv"}, {"desc"}),
    St(5, 1068, {"mbtr"}, {"x1"}),
    St(5, 1069, {"mpl", "x1", "desc"}, {}),
    St(5, 1070, {"mpl", "x1", "desc"}, {}),
    St(5, 1071, {"mpl"}, {}),
    St(5, 1072, {"mpl"}, {}),
    St(5, 1073, {"mpl"}, {}),
    St(5, 1074, {"mpl"}, {}),
    St(5, 1075, {"mpl"}, {}),
    St(6, 1085, {"mbtr"}, {"x2"}),
    St(6, 1086, {"mpl", "x2", "desc"}, {}),
    St(6, 1087, {"mpl", "x2", "desc"}, {}),
    St(6, 1088, {"mpl", "x2", "desc"}, {}),
    St(6, 1089, {"mpl"}, {}),
    St(6, 1090, {"mpl"}, {}),
    St(6, 1091, {"mpl"}, {}),
    St(6, 1092, {"mpl"}, {}),
    St(6, 1093, {"mpl"}, {}),
    St(7, 1105, {"mbtr"}, {"x3"}),
    St(7, 1106, {"mpl", "x3", "desc"}, {}),
    St(7, 1107, {"mpl", "x3", "desc"}, {}),
    St(7, 1108, {"mpl", "x3", "desc"}, {}),
    St(7, 1109, {"mpl"}, {}),
    St(7, 1110, {"mpl"}, {}),
    St(7, 1111, {"mpl"}, {}),
    St(7, 1112, {"mpl"}, {}),
    St(7, 1113, {"mpl"}, {}) >>

\* ACSF-Dimer.ipynb, lines 1166-1394: Neural Network
NNIntroScript == <<
    St(1, 1227, {}, {"MLPRegressor"}),
    St(1, 1228, {}, {"numpy", "math", "random"}),
    St(1, 1229, {}, {"plt"}),
    St(1, 1230, {}, {"Axes3D"}),
    St(1, 1234, {}, {"Model"}),
    St(2, 1264, {}, {"nTrainPts"}),
    St(2, 1265, {"numpy", "nTrainPts"}, {"trainIn"}),
    St(2, 1268, {}, {"nValidPts"}),
    St(2, 1269, {"numpy", "nValidPts"}, {"validIn"}),
    St(2, 1272, {"numpy", "Model", "trainIn"}, {"trainOut"}),
    St(2, 1273, {"numpy", "Model", "validIn"}, {"validOut"}),
    St(2, 1276, {"plt", "trainIn", "trainOut"}, {}),
    St(2, 1277, {"plt"}, {}),
    St(2, 1278, {"plt"}, {}),
    St(3, 1301, {"MLPRegressor"}, {"nn"}),
    St(4, 1328, {"nn"}, {}),
    St(4, 1329, {"nn", "trainIn", "trainOut"}, {}),
    St(4, 1332, {"nn", "trainIn"}, {"trainMLOut"}),
    St(4, 1333, {"nn", "validIn"}, {"validMLOut"}),
    St(4, 1335, {"numpy", "trainMLOut", "trainOut"}, {}),
    St(4, 1336, {"numpy", "validMLOut", "validOut"}, {}),
    St(4, 1339, {"plt", "validOut", "validMLOut"}, {}),
    St(4, 1340, {"plt"}, {}),
    St(4, 1341, {"plt"}, {}),
    St(4, 1342, {"plt"}, {}),
    St(4, 1343, {"plt"}, {}) >>

\* ACSF.ipynb, lines 1-336: Atom Centered Symmetry Functions
AcsfScript == <<
    St(1, 38, {}, {"MLPRegressor"}),
    St(1, 39, {}, {"numpy", "math", "random"}),
    St(1, 40, {}, {"plt"}),
    St(1, 41, {}, {"Axes3D"}),
    St(1, 42, {}, {"view"}),
    St(1, 43, {}, {"Atoms"}),
    St(2, 55, {}, {"d1"}),
    St(2, 56, {}, {"d2"}),
    St(2, 57, {}, {"theta"}),
    St(2, 59, {"math", "theta"}, {"theta"}),
    St(2, 62, {"numpy"}, {"atoms"}),
    St(2, 63, {"math", "theta", "atoms"}, {}),
    St(2, 64, {"math", "theta", "atoms"}, {}),
    St(2, 65, {"numpy", "atoms"}, {"atoms"}),
    St(2, 66, {"Atoms", "atoms"}, {"atoms_sys"}),
    St(2, 69, {"atoms"}, {}),
    St(2, 72, {"view", "atoms_sys"}, {}),
    St(3, 96, {}, {"Rcut"}),
    St(3, 98, {}, {"fcut"}),
    St(3, 102, {"numpy"}, {"G0"}),
    St(3, 103, {"numpy", "atoms", "Rcut", "fcut", "math", "G0"}, {"i", "j", "r"}),
    St(3, 110, {"G0"}, {}),
    St(4, 143, {}, {"G1f"}),
    St(4, 145, {"numpy", "G1f"}, {"G1v"}),
    St(4, 148, {}, {"p"}),
    St(4, 151, {"numpy", "Rcut"}, {"datar"}),
    St(4, 152, {"p", "plt", "datar", "G1v"}, {"pp"}),
    St(4, 154, {"plt"}, {}),
    St(4, 155, {"plt"}, {}),
    St(4, 156, {"plt"}, {}),
    St(4, 159, {"numpy", "p"}, {"G1"}),
    St(4, 161, {"numpy", "atoms", "Rcut", "p", "G1f", "math", "G1"}, {"i", "j", "r", "k", "eta",
          "rs"}),
    St(4, 170, {"G1"}, {}),
    St(5, 204, {}, {"G4f"}),
    St(5, 211, {}, {"p"}),
    St(5, 215, {"numpy", "p"}, {"G4"}),
    St(5, 217, {"numpy", "atoms", "Rcut", "p", "G4f", "math", "fcut", "G4"}, {"i", "j", "rij",
          "k", "rik", "rjk", "cost", "eta", "zeta", "lamb"}),
    St(5, 233, {"G4"}, {}) >>

\* ACSF.ipynb, lines 338-802: HOMO energy prediction with kernel ridge regression
KRRScript == <<
    St(1, 362, {}, {"np"}),
    St(1, 363, {}, {"math", "random"}),
    St(1, 364, {}, {"plt"}),
    St(1, 365, {}, {"pd"}),
    St(1, 366, {}, {"json"}),
    St(1, 367, {}, {"sns"}),
    St(1, 368, {}, {"load_npz"}),
    St(1, 369, {}, {"LinearSegmentedColormap"}),
    St(1, 370, {}, {"GridSearchCV"}),
    St(1, 371, {}, {"KernelRidge"}),
    St(1, 372, {}, {"r2_score"}),
    St(2, 390, {"load_npz"}, {"x"}),
    St(2, 391, {"np"}, {"y"}),
    St(2, 393, {"y"}, {}),
    St(3, 409, {"random", "y"}, {"rand_mol"}),
    St(3, 411, {"x", "rand_mol"}, {}),
    St(4, 427, {}, {"shape"}),
    St(4, 428, {"x", "rand_mol", "shape"}, {"mat"}),
    St(4, 430, {"plt"}, {}),
    St(4, 431, {"plt"}, {}),
    St(4, 432, {"plt", "mat"}, {}),
    St(4, 433, {"plt"}, {}),
    St(4, 434, {"plt"}, {}),
    St(4, 435, {"plt"}, {}),
    St(5, 451, {"plt", "y"}, {}),
    St(5, 452, {"plt"}, {}),
    St(5, 453, {"plt"}, {}),
    St(5, 454, {"plt"}, {}),
    St(5, 455, {"plt"}, {}),
    St(5, 458, {"np", "y"}, {}),
    St(6, 476, {"x", "y"}, {"c"}),
    St(6, 477, {"random", "c"}, {}),
    St(6, 479, {"c"}, {"x", "y"}),
    St(6, 481, {"np", "x"}, {"x"}),
    St(6, 482, {"np", "y"}, {"y"}),
    St(7, 499, {}, {"n_train"}),
    St(7, 500, {}, {"n_test"}),
    St(7, 504, {"x", "n_train"}, {"x_train"}),
    St(7, 505, {"y", "n_train"}, {"y_train"}),
    St(7, 508, {"x", "n_train", "n_test"}, {"x_test"}),
    St(7, 509, {"y", "n_train", "n_test"}, {"y_test"}),
    St(8, 525, {"plt", "y_test"}, {}),
    St(8, 526, {"plt", "y_train"}, {}),
    St(8, 527, {"plt"}, {}),
    St(8, 528, {"plt"}, {}),
    St(8, 529, {"plt"}, {}),
    St(8, 530, {"plt"}, {}),
    St(8, 533, {"np", "y_train"}, {}),
    St(8, 534, {"np", "y_test"}, {}),
    St(9, 589, {"np"}, {"alpha"}),
    St(9, 590, {"np"}, {"gamma"}),
    St(9, 592, {}, {"cv_number"}),
    St(9, 593, {}, {"kernel"}),
    St(9, 594, {}, {"scoring_function"}),
    St(9, 599, {"GridSearchCV", "KernelRidge", "kernel", "alpha", "gamma", "cv_number",
          "scoring_function"}, {"grid_search"}),
    St(9, 608, {"grid_search", "x_train", "y_train"}, {}),
    St(10, 626, {"grid_search"}, {"means"}),
    St(10, 627, {"grid_search"}, {"stds"}),
    St(10, 628, {"means", "stds", "grid_search"}, {"mean", "std", "params"}),
    St(11, 645, {"pd", "grid_search"}, {"results"}),
    St(11, 648, {"pd", "results"}, {"pvt"}),
    St(11, 650, {"sns", "pvt"}, {"heatmap"}),
    St(11, 651, {"heatmap"}, {"figure"}),
    St(11, 652, {"plt"}, {}),
    St(11, 655, {"grid_search"}, {}),
    St(12, 686, {"grid_search", "x_test"}, {"y_pred"}),
    St(12, 689, {"np", "y_pred", "y_test"}, {}),
    St(12, 692, {"plt", "y_test", "y_pred"}, {}),
    St(12, 693, {"plt", "np", "y_test"}, {}),
    St(12, 694, {"plt"}, {}),
    St(12, 695, {"plt"}, {}),
    St(12, 696, {"plt"}, {}),
    St(12, 697, {"r2_score", "y_test", "y_pred"}, {}) >>

\* ACSF.ipynb, lines 804-1094: Smooth Overlap of Atomic Positions
SoapScript == <<
    St(1, 860, {}, {"numpy", "math", "random"}),
    St(1, 861, {}, {"view"}),
    St(1, 862, {}, {"Atoms"}),
    St(1, 863, {}, {"sys"}),
    St(1, 864, {"sys"}, {}),
    St(1, 865, {"sys"}, {}),
    St(1, 866, {}, {"SOAP"}),
    St(2, 885, {"Atoms"}, {"NaCl_conv"}),
    St(2, 903, {"view", "NaCl_conv"}, {}),
    St(3, 927, {}, {"calcpos"}),
    St(3, 929, {"SOAP"}, {"soaper"}),
    St(4, 953, {"soaper", "NaCl_conv", "calcpos"}, {"soap1"}),
    St(4, 954, {"soap1"}, {}),
    St(4, 955, {"calcpos", "soap1"}, {}),
    St(5, 973, {"NaCl_conv"}, {}),
    St(5, 975, {"NaCl_conv", "calcpos"}, {}),
    St(5, 977, {"NaCl_conv"}, {}),
    St(5, 979, {"view", "NaCl_conv"}, {}),
    St(6, 995, {"soaper", "NaCl_conv", "calcpos"}, {"soap2"}),
    St(6, 996, {"numpy", "soap1", "soap2"}, {}),
    St(8, 1050, {"numpy"}, {"molxyz"}),
    St(8, 1052, {"numpy"}, {"moltyp"}),
    St(8, 1054, {"Atoms", "molxyz", "moltyp"}, {"atoms_sys"}),
    St(8, 1055, {"view", "atoms_sys"}, {}) >>

Script(n) ==
    CASE n = "ACSF-Dimer" -> DimerScript
      [] n = "NN-Energy" -> NNEnergyScript
      [] n = "MBTR" -> MBTRScript
      [] n = "NN-Intro" -> NNIntroScript
      [] n = "ACSF" -> AcsfScript
      [] n = "KRR" -> KRRScript
      [] n = "SOAP" -> SoapScript
Notebooks == {"ACSF-Dimer", "NN-Energy", "MBTR", "NN-Intro", "ACSF", "KRR", "SOAP"}

\* a fresh session, before the first statement of the first code cell
LinInit ==
    /\ nb \in Notebooks
    /\ ns = {}
    /\ Rcut = Zero
    /\ geom = [i \in AtomIx |-> <<0, 0, 0>>]
    /\ AcsfIdle
    /\ DimerIdle
    /\ SoapIdle
    /\ DataIdle
    /\ arg = <<>>
    /\ res = <<>>
    /\ pc = 1
    /\ failed = {}
    /\ filled = {}
    /\ written = {}

\* the first statement of the cell after the cell of statement n
NextCell(s, n) ==
    IF \E m \in (n + 1) .. Len(s) : s[m].cell # s[n].cell
    THEN CHOOSE m \in (n + 1) .. Len(s) :
            s[m].cell # s[n].cell /\ \A q \in (n + 1) .. (m - 1) : s[q].cell = s[n].cell
    ELSE Len(s) + 1

\* the next statement runs: every name it reads is bound
LinStep ==
    /\ pc <= Len(Script(nb))
    /\ Script(nb)[pc].uses \subseteq ns
    /\ ns' = ns \cup Script(nb)[pc].defs
    /\ pc' = pc + 1
    /\ UNCHANGED <<nb, Rcut, acsfVars, dimerVars, soapVars, dataVars, arg, res, failed, filled, written>>

\* the next statement raises NameError: the rest of its cell is skipped
LinNameError ==
    /\ pc <= Len(Script(nb))
    /\ ~(Script(nb)[pc].uses \subseteq ns)
    /\ failed' = failed \cup (Script(nb)[pc].uses \ ns)
    /\ pc' = NextCell(Script(nb), pc)
    /\ UNCHANGED <<nb, ns, Rcut, acsfVars, dimerVars, soapVars, dataVars, arg, res, filled, written>>

LinNext == LinStep \/ LinNameError
SpecLinear == LinInit /\ [][LinNext]_vars

-----------------------------------------------------------------------------
Init == AcsfInit \/ DimerInit \/ SoapInit \/ DataInit
Next == AcsfNext \/ DimerNext \/ SoapNext \/ DataNext
Spec == Init /\ [][Next]_vars

-----------------------------------------------------------------------------
(* The properties *)

\* C1: the cutoff function returns zero beyond its cutoff radius: in both
\* notebooks, fcut(r) = 0 for every distance r greater than Rcut.
C1_FcutZeroBeyondRcut == (res # <<>> /\ Gt(arg, Rcut)) => IsZero(res[1])

\* the triples of the G4 loops whose three distances are all within the cutoff
HardTripleIter(at, i, rc) ==
    SelectSeq(TripleIter(at, i, rc), LAMBDA jk :
        ~Gt(Dist(at, i, jk[2]), rc) /\ ~Gt(Dist(at, jk[1], jk[2]), rc))

\* the G4 sums over those triples alone
G4Hard(at, pl, rc) ==
    [i \in AtomIx |-> [c \in 0 .. (Len(pl) - 1) |->
        LET jks == HardTripleIter(at, i, rc)
        IN  SumFrom(Zero, [n \in 1 .. Len(jks) |->
                G4Term(at, pl, i, jks[n][1], jks[n][2], c, rc)])]]
G4HardOf == Tabulate([g \in Geoms |-> G4Hard(g, pG4, RcutValue)])

\* the atoms within the cutoff of atom i, and the G0 and G1 sums over them alone
Near(at, i, rc) == SelectSeq(AtomSeq, LAMBDA j : j # i /\ Le(Dist(at, i, j), rc))
G0Hard(at, rc) ==
    [i \in AtomIx |->
        LET js == Near(at, i, rc)
        IN  SumFrom(Zero, [n \in 1 .. Len(js) |-> fcut(Dist(at, i, js[n]), rc)])]
G1Hard(at, pl, rc) ==
    [i \in AtomIx |-> [k \in 0 .. (Len(pl) - 1) |->
        LET js == Near(at, i, rc)
        IN  SumFrom(Zero, [n \in 1 .. Len(js) |->
                G1f(Dist(at, i, js[n]), pl[k + 1][1], pl[k + 1][2], rc)])]]
G0HardOf == Tabulate([g \in Geoms |-> G0Hard(g, RcutValue)])
G1HardOf == Tabulate([g \in Geoms |-> G1Hard(g, pG1, RcutValue)])

\* C2: each of the G0, G1 and G4 sums applies a hard cutoff at Rcut: an atom
\* farther than Rcut from the central atom i adds nothing to row i, as
\* neighbour j or as neighbour k, and a triplet whose j-k distance exceeds Rcut
\* adds nothing. It is stated for arrays of pairwise distinct positions, where
\* every term of the sums is a number.
C2_HardCutoff ==
    (\A i, j \in AtomIx : i # j => atoms[i] # atoms[j]) =>
        /\ "G0" \in filled => G0 = G0HardOf[atoms]
        /\ "G1" \in filled => G1 = G1HardOf[atoms]
        /\ "G4" \in filled => G4 = G4HardOf[atoms]

\* C3: for every reordering of the atoms in the coordinate array, the G0, G1
\* and G4 values of each atom are unchanged: the rows of the descriptors are
\* reordered the same way, and an atom whose row stays in place keeps its row.
C3_PermutationInvariant ==
    res = <<"perm">> =>
        \A i \in AtomIx :
            /\ G0[arg.pi[i]] = G0Of[geom][i]
            /\ G1[arg.pi[i]] = G1Of[geom][i]
            /\ G4[arg.pi[i]] = G4Of[geom][i]

C3_Witness ==
    /\ res = <<"perm">>
    /\ arg.pi # IdPerm
    /\ \E i, j \in AtomIx : G4[i] # G4[j] /\ ~IsZero(G4[i][0]) /\ ~IsZero(G4[j][0])

AllWritten(name, nrows, ncols) == RowsWritten(name, 0 .. (nrows - 1), ncols) \subseteq written

\* C5: a descriptor matrix has one row per configuration (dimer) or atom
\* (trimer) and one column per parameter tuple of the list used, and every
\* cell of the matrix is written by the loop that fills it.
C5_ShapeAndWritten ==
    /\ "acsf" \in filled =>
          /\ Rows(acsf.val) = Rows(dists)
          /\ NCols(acsf.val) = Len(params)
          /\ AllWritten("acsf", Rows(acsf.val), NCols(acsf.val))
    /\ "G1" \in filled =>
          /\ Rows(G1) = NAtoms
          /\ NCols(G1) = Len(pG1)
          /\ AllWritten("G1", NAtoms, Len(pG1))
    /\ "G4" \in filled =>
          /\ Rows(G4) = NAtoms
          /\ NCols(G4) = Len(pG4)
          /\ AllWritten("G4", NAtoms, Len(pG4))

\* C5, amended: the dimer matrix has one row per configuration and one column
\* more than there are parameter pairs (column 0 holds G0), and its loop
\* writes every cell; the trimer matrices have one row per atom and one column
\* per parameter tuple, and their loops write exactly the rows of the atoms
\* that have a neighbour within Rcut, the other rows keeping the zeros of
\* numpy.zeros.
C5_ShapeAmended ==
    /\ "acsf" \in filled =>
          /\ Rows(acsf.val) = Rows(dists)
          /\ NCols(acsf.val) = 1 + Len(params)
          /\ AllWritten("acsf", Rows(acsf.val), NCols(acsf.val))
    /\ "G0" \in filled =>
          /\ Rows(G0) = NAtoms
          /\ \A i \in AtomIx :
                IF PairIter(atoms, i, Rcut) # <<>>
                THEN <<"G0", i, 0>> \in written
                ELSE <<"G0", i, 0>> \notin written /\ IsZero(G0[i])
    /\ "G1" \in filled =>
          /\ Rows(G1) = NAtoms
          /\ NCols(G1) = Len(pG1)
          /\ \A i \in AtomIx : \A c \in 0 .. (Len(pG1) - 1) :
                IF PairIter(atoms, i, Rcut) # <<>>
                THEN <<"G1", i, c>> \in written
                ELSE <<"G1", i, c>> \notin written /\ IsZero(G1[i][c])
    /\ "G4" \in filled =>
          /\ Rows(G4) = NAtoms
          /\ NCols(G4) = Len(pG4)
          /\ \A i \in AtomIx : \A c \in 0 .. (Len(pG4) - 1) :
                IF TripleIter(atoms, i, Rcut) # <<>>
                THEN <<"G4", i, c>> \in written
                ELSE <<"G4", i, c>> \notin written /\ IsZero(G4[i][c])

C5_Witness ==
    /\ "acsf" \in filled
    /\ acsf.kind = "ndarray"
    /\ Rows(acsf.val) > 1
    /\ NCols(acsf.val) = 3

\* C6: a descriptor matrix is not mutated after it has been computed: once the
\* loop that fills it has finished, no later cell changes any of its entries.
C6_NoMutation ==
    [][/\ ("acsf" \in filled /\ "acsf" \in filled') => (acsf' = acsf \/ DimerAcsf)
       /\ ("G0" \in filled /\ "G0" \in filled') => (G0' = G0 \/ AcsfG0)
       /\ ("G1" \in filled /\ "G1" \in filled') => (G1' = G1 \/ AcsfG1)
       /\ ("G4" \in filled /\ "G4" \in filled') => (G4' = G4 \/ AcsfG4)]_vars

\* C6, amended: once the loop that fills it has finished, the trimer arrays
\* G0, G1 and G4 keep their entries, and the entries of the dimer matrix acsf
\* are changed by the shift-and-scale cell alone, which overwrites them in
\* place each time it runs.
C6_OnlyScalingMutates ==
    [][/\ ("acsf" \in filled /\ "acsf" \in filled') =>
             (acsf' = acsf \/ DimerAcsf \/ DimerScale)
       /\ ("G0" \in filled /\ "G0" \in filled') => G0' = G0
       /\ ("G1" \in filled /\ "G1" \in filled') => G1' = G1
       /\ ("G4" \in filled /\ "G4" \in filled') => G4' = G4]_vars

C6_Witness ==
    /\ "acsf" \in filled
    /\ nscale = 1
    /\ acsf.val # AcsfValue
    /\ "energyML" \in ns

\* C7: an atomic configuration is immutable once constructed: the coordinates
\* seen by any descriptor computation are the ones it was constructed with,
\* however many times and in whatever order the later cells are run.
C7_Immutable ==
    /\ "atoms" \in ns => atoms = geom
    /\ "NaCl_conv" \in ns => positions = NaClValue
    /\ "soap1" \in ns => soap1 = NaClValue
    /\ "soap2" \in ns => soap2 = NaClValue

\* C7, amended: the trimer array atoms is never changed once built; the
\* positions of NaCl_conv are changed by the rotation cell alone (and set anew
\* by the cell that builds NaCl_conv), each run turning them in place by a
\* further 90 degrees, and a descriptor computation sees the positions as the
\* rotations run so far have left them.
C7_OnlyRotationMutates ==
    [][/\ "atoms" \in ns => atoms' = atoms
       /\ ("NaCl_conv" \in ns /\ positions' # positions) => (SoapRotate \/ SoapSystem)
       /\ soap1' # soap1 => soap1' = positions
       /\ soap2' # soap2 => soap2' = positions]_vars

C7_Witness ==
    /\ "soap2" \in ns
    /\ soap2 # NaClValue
    /\ positions # soap2

\* the arguments the evaluators are compared on
Probes == {Norm(1, 0), Norm(25, -1), Norm(6, 0)}

C9_G4Finite ==
    "G4" \in filled => \A i \in AtomIx : \A c \in 0 .. (Len(pG4) - 1) : IsFinite(G4[i][c])

\* C10: when the code cells of a notebook are executed once each, top to
\* bottom, in a fresh session, every variable and function a cell reads has
\* been defined by an earlier cell of the same notebook.
C10_Linear == pc \in 1 .. Len(Script(nb)) => Script(nb)[pc].uses \subseteq ns


\* C11: every further run of the training cell on a fitted network goes on
\* from the weights the run before it left: the weights are not drawn anew
\* and the run counts as one more fit on the same weights.
C11_TrainingContinues ==
    [][(DimerTrain /\ nn = "fitted" /\ acsf.kind = "ndarray")
          => (weights'.gen = weights.gen /\ weights'.fits = weights.fits + 1)]_vars

\* C12: the cell that picks a random molecule always picks a molecule of the
\* dataset: whenever rand_mol is bound, 0 <= rand_mol < len(y).
C12_RandMolInRange ==
    (nb = "KRR" /\ "rand_mol" \in ns) => (0 <= rand_mol /\ rand_mol < file.rows)

\* C18: the difference whose absolute values are averaged has exactly one
\* entry per sample, and each entry pairs a prediction with the reference of
\* the same sample.
C18_PairedDifference ==
    (nb = "NN-Energy" /\ "validMLOut" \in ns)
        => (Cardinality(diff) = file.rows /\ \A e \in diff : e.a = e.b)

\* how often atom j occurs among the neighbours js
Terms(js, j) == Cardinality({n \in DOMAIN js : js[n] = j})

\* C13: for every atom i the two-body loops add exactly one term for each atom
\* j with j # i and r_ij <= Rcut, no term for j = i and no term for any other
\* j, and G0[i] and every G1[i,k] are the sums of these terms.
C13_TwoBodyTerms ==
    nb = "ACSF" =>
        /\ "G0" \in filled =>
              /\ \A i, j \in AtomIx :
                    Terms(PairIter(atoms, i, Rcut), j)
                        = IF j # i /\ Le(Dist(atoms, i, j), Rcut) THEN 1 ELSE 0
              /\ G0 = G0HardOf[atoms]
        /\ "G1" \in filled =>
              /\ \A i, j \in AtomIx :
                    Terms(PairIter(atoms, i, Rcut), j)
                        = IF j # i /\ Le(Dist(atoms, i, j), Rcut) THEN 1 ELSE 0
              /\ G1 = G1HardOf[atoms]

\* both cells ran on a geometry where some atom has a neighbour within the
\* cutoff and another atom beyond it
C13_Witness ==
    /\ nb = "ACSF"
    /\ {"G0", "G1"} \subseteq filled
    /\ \E i, j, k \in AtomIx :
          /\ i # j /\ i # k /\ j # k
          /\ Le(Dist(atoms, i, j), Rcut)
          /\ Gt(Dist(atoms, i, k), Rcut)
          /\ ~IsZero(G0[i])

\* the sum of column c of row i over the updates G4Visits lists for it
G4OfVisits(at, pl, rc) ==
    [i \in AtomIx |-> [c \in 0 .. (Len(pl) - 1) |->
        LET vs == SelectSeq(G4Visits(at, i, rc, Len(pl)), LAMBDA v : v[3] = c)
        IN  SumFrom(Zero, [n \in 1 .. Len(vs) |->
                G4Term(at, pl, i, vs[n][1], vs[n][2], c, rc)])]]
G4VisitsOf == Tabulate([g \in Geoms |-> G4OfVisits(g, pG4, RcutValue)])

\* C14: in the G4 loops, for every atom i each ordered pair <<j, k>> of distinct
\* other atoms with r_ij <= Rcut adds exactly one term to every column c of
\* row i, computed with p[c], and nothing else adds a term: the innermost loop
\* over the parameters, which rebinds the name k, makes the loop over the
\* atoms k neither skip nor repeat an atom.
C14_G4EachPairOnce ==
    (nb = "ACSF" /\ "G4" \in filled) =>
        /\ \A i, j, k \in AtomIx : \A c \in 0 .. (Len(pG4) - 1) :
              Terms(G4Visits(atoms, i, Rcut, Len(pG4)), <<j, k, c>>)
                  = IF j # i /\ k # i /\ k # j /\ Le(Dist(atoms, i, j), Rcut) THEN 1 ELSE 0
        /\ \A i \in AtomIx : Len(G4Visits(atoms, i, Rcut, Len(pG4))) % Len(pG4) = 0
        /\ G4 = G4VisitsOf[atoms]

\* the G4 cell ran on a geometry where an atom has both other atoms within the
\* cutoff, so that the loop over k goes on after the parameter loop has run
C14_Witness ==
    /\ nb = "ACSF"
    /\ "G4" \in filled
    /\ \E i, j, k \in AtomIx :
          /\ i # j /\ i # k /\ j # k
          /\ Le(Dist(atoms, i, j), Rcut)
          /\ Le(Dist(atoms, i, k), Rcut)
          /\ i > 0
          /\ ~IsZero(G4[i][0])

\* C15: for every pair distance of the dimer notebook, the row the notebook
\* stores, fcut(r) followed by G1f(r, eta, Rs) for each parameter pair, equals
\* the row the G0 and G1 loops of the ACSF notebook give for either atom of two
\* atoms at that distance.
C15_DimerRowIsGeneralRow ==
    (nb = "ACSF-Dimer" /\ "acsf" \in filled /\ acsf.kind = "ndarray" /\ nscale = 0) =>
        \A k \in DOMAIN dists : \A i \in 0 .. 1 :
            acsf.val[k] = PairLoops(dists[k], params, Rcut)[i]

\* the descriptor cell has filled the matrix, whose rows hold values other
\* than 0 and differ from one distance to the next
C15_Witness ==
    /\ nb = "ACSF-Dimer"
    /\ "acsf" \in filled
    /\ acsf.kind = "ndarray"
    /\ nscale = 0
    /\ Rows(dists) > 1
    /\ acsf.val[0] # acsf.val[1]
    /\ \A c \in DOMAIN acsf.val[0] : ~IsZero(acsf.val[0][c])

\* C16: running the G0, G1 or G4 cell again is idempotent: a step of one of
\* the three cells leaves every descriptor array that a cell has filled before
\* equal to what it was, and filled, whatever the other cells did to the name
\* p in between.
C16_RerunIdempotent ==
    [][(AcsfG0 \/ AcsfG1 \/ AcsfG4) =>
          /\ "G0" \in filled => (G0' = G0 /\ "G0" \in filled')
          /\ "G1" \in filled => (G1' = G1 /\ "G1" \in filled')
          /\ "G4" \in filled => (G4' = G4 /\ "G4" \in filled')]_vars

\* cells ran again on filled arrays, the G1 cell last of the two cells that
\* bind p, and the arrays hold values other than 0
C16_Witness ==
    /\ nb = "ACSF"
    /\ {"G0", "G1", "G4"} \subseteq filled
    /\ reruns = MaxReruns
    /\ p = pG1
    /\ \E i \in AtomIx : ~IsZero(G0[i]) /\ ~IsZero(G1[i][0]) /\ ~IsZero(G4[i][0])

\* C17: once the cell that creates the descriptor matrix has run, every call
\* nn.fit(acsf, energy) of the training cell and nn.predict(acsf) of the
\* evaluation cell is handed an array with one row per configuration.
C17_AcsfIsMatrix ==
    [][((DimerTrain \/ DimerEval) /\ "nConfs" \in ns)
          => (received'.kind = "ndarray" /\ received'.rows = Rows(dists))]_vars

====
